---- MODULE Spec2Model ----
(***************************************************************************)
(* The plugin execution engine of beet/toolchain/pipeline.py:              *)
(* GenericPipeline (require, resolve, run) and Task (advance).             *)
(*                                                                         *)
(* The Python call stack is explicit (variable stack), because a plugin    *)
(* body may call require while it runs.  A plugin body is arbitrary code:  *)
(* at every point it nondeterministically requires other plugins, yields,  *)
(* returns or raises.                                                      *)
(***************************************************************************)
EXTENDS Integers, Sequences, FiniteSets, TLC

\* ------------------------------------------------------------------ bounds
MaxArgs == 2       \* longest argument list of one require / run call
MaxCalls == 2      \* top-level calls made on the engine
MaxYield == 2      \* suspensions of one task
MaxNested == 1     \* require calls made from inside plugin bodies

\* ------------------------------------------------------------------ inputs
Plugins == {"A", "B", "C"}                         \* plugin identities (callables)
Strings == {"mod.a", "bad.module:fn", "cfg.err"}   \* textual specs
Specs == Plugins \cup Strings

ArgLists == UNION {[1..n -> Specs] : n \in 0..MaxArgs}

\* A plugin body requires one spec at a time.
NestedArgLists == [1..1 -> Specs]

\* import_from_string: "mod.a" is plugin A, "bad.module:fn" fails with an
\* ordinary error, "cfg.err" fails with an escape-hatch error.
import_from_string(spec) ==
    CASE spec = "mod.a"         -> [ok |-> TRUE,  plugin |-> "A", cls |-> "None"]
      [] spec = "bad.module:fn" -> [ok |-> FALSE, plugin |-> "",  cls |-> "Exception"]
      [] spec = "cfg.err"       -> [ok |-> FALSE, plugin |-> "",  cls |-> "BubbleException"]

\* ------------------------------------------------------------------ errors
\* An exception object: id is its identity, cls its class, of the plugin or
\* spec a wrapper names, cause the id of the wrapped error (raise .. from),
\* depth the number of PluginError / PluginImportError wrappers in its
\* cause chain, itself included.
NoErr == [id |-> 0, cls |-> "None", of |-> "", depth |-> 0, cause |-> 0]

NewErr(n, cls) == [id |-> n, cls |-> cls, of |-> "", depth |-> 0, cause |-> 0]

PluginError(n, plugin, exc) ==
    [id |-> n, cls |-> "PluginError", of |-> plugin,
     depth |-> exc.depth + 1, cause |-> exc.id]

PluginImportError(n, spec, exc) ==
    [id |-> n, cls |-> "PluginImportError", of |-> spec,
     depth |-> exc.depth + 1, cause |-> exc.id]

\* isinstance(exc, BubbleException): both wrappers derive from
\* WrappedException, which is a BubbleException.
IsBubble(e) == e.cls \in {"BubbleException", "PluginError", "PluginImportError"}

RaisableClasses == {"Exception", "BubbleException", "StopIteration"}

\* ------------------------------------------------------------------ state
VARIABLES
    plugins,    \* GenericPipeline.plugins: the activated set
    tasks,      \* GenericPipeline.tasks: the pending stack, top last
    stack,      \* the Python call stack, innermost frame last
    result,     \* outcome of the latest top-level call
    errCount,   \* exception objects created during the current top-level call
    calls,      \* top-level calls made so far
    nested,     \* require calls made from plugin bodies so far
    invoked,    \* invoked[p]: times line 84 called plugin p
    finished,   \* plugins whose task's advance returned None or raised
    last,       \* the latest advance call or failed resolve call: by is the
                \* caller ("require", "run"), plugin the task's plugin,
                \* iterator its cursor, inj the `exception` argument, left
                \* the exception that left the try block's code (NoErr if
                \* none), raised the exception the call raised (NoErr if none)
    open,       \* ids of the exceptions raised during the current top-level
                \* call that no plugin code has caught so far; an exception
                \* raised while handling another, or wrapping it, stands for it
    log,        \* what plugin code did during the current top-level call:
                \* <<p, k>> when p starts (k = 0) or is resumed after its
                \* k-th suspension, <<p, -1>> when it suspends
    requester,  \* requester[q]: the plugin whose body made the require call
                \* that invoked q, "" when the caller of the engine made it
    skipped     \* while run drains: the specs that its initial require call
                \* had not reached when it raised

vars == <<plugins, tasks, stack, result, errCount, calls, nested, invoked,
          finished, last, open, log, requester, skipped>>

\* A Task (lines 69-74): iterator is "None" before line 85 sets it, "empty"
\* for iter([]), "gen" for a generator and "iter" for any other iterator;
\* yields counts its suspensions.
Task(plugin) == [plugin |-> plugin, iterator |-> "None", yields |-> 0]
NoTask == [plugin |-> "", iterator |-> "None", yields |-> 0]

\* A frame.  op "run": exc is the local `exception`, phase "require" while
\* line 146 runs and "drain" in the loop.  op "require": args are its
\* arguments, i counts the ones the loop is done with.  op "advance":
\* task.advance; phase "call" while self.plugin(ctx) runs (line 84), "next"
\* while next/throw runs the cursor (lines 89, 91); exc is the exception the
\* plugin body is currently handling (thrown in, or raised by a require it
\* called), inj the `exception` argument of the call.
Frame(op, args, task, phase, exc, inj) ==
    [op |-> op, args |-> args, i |-> 0, task |-> task, phase |-> phase,
     exc |-> exc, inj |-> inj]

NoLast == [by |-> "", plugin |-> "", iterator |-> "None", inj |-> NoErr,
           left |-> NoErr, raised |-> NoErr]

Top == stack[Len(stack)]
Below == SubSeq(stack, 1, Len(stack) - 1)
Front(s) == SubSeq(s, 1, Len(s) - 1)
Last(s) == s[Len(s)]

Running(op) == stack # <<>> /\ Top.op = op

Init ==
    /\ plugins = {}
    /\ tasks = <<>>
    /\ stack = <<>>
    /\ result = [op |-> "none", status |-> "none", err |-> NoErr]
    /\ errCount = 0
    /\ calls = 0
    /\ nested = 0
    /\ invoked = [p \in Plugins |-> 0]
    /\ finished = {}
    /\ last = NoLast
    /\ open = {}
    /\ log = <<>>
    /\ requester = [p \in Plugins |-> ""]
    /\ skipped = {}

\* ------------------------------------------------------------------ helpers
\* run without its except clauses: the exception escapes every frame.
RECURSIVE Unwind_escape(_, _)
Unwind_escape(stk, e) ==
    IF stk = <<>> THEN <<>>
    ELSE IF Last(stk).op = "advance"
         THEN Append(Front(stk), [Last(stk) EXCEPT !.exc = e])
         ELSE Unwind_escape(Front(stk), e)

\* require with a handler of its own: an exception of one spec is dropped
\* and the loop goes on.
RECURSIVE Unwind_continue(_, _)
Unwind_continue(stk, e) ==
    IF stk = <<>> THEN <<>>
    ELSE LET top == Last(stk) IN
         CASE top.op = "require" -> stk
           [] top.op = "advance" -> Append(Front(stk), [top EXCEPT !.exc = e])
           [] top.op = "run" ->
                Append(Front(stk), [top EXCEPT !.exc = e, !.phase = "drain"])

\* The loop of run without its except clause: an exception of a drain step
\* leaves run at once.
RECURSIVE Unwind_loopescape(_, _)
Unwind_loopescape(stk, e) ==
    IF stk = <<>> THEN <<>>
    ELSE LET top == Last(stk) IN
         CASE top.op = "require" -> Unwind_loopescape(Front(stk), e)
           [] top.op = "advance" -> Append(Front(stk), [top EXCEPT !.exc = e])
           [] top.op = "run" ->
                IF top.phase = "drain" THEN Unwind_loopescape(Front(stk), e)
                ELSE Append(Front(stk), [top EXCEPT !.exc = e, !.phase = "drain"])

\* An exception leaving a frame travels down the call stack to the nearest
\* handler: require has none (lines 114-124); a plugin body that called
\* require gets it at the call; run catches it (lines 147-148, 156-157).
RECURSIVE Unwind(_, _)
Unwind(stk, e) ==
    IF stk = <<>> THEN <<>>
    ELSE LET top == Last(stk) IN
         CASE top.op = "require" -> Unwind(Front(stk), e)
           [] top.op = "advance" -> Append(Front(stk), [top EXCEPT !.exc = e])
           [] top.op = "run" ->
                Append(Front(stk), [top EXCEPT !.exc = e, !.phase = "drain"])

Raised(stk, e) ==
    IF Unwind(stk, e) = <<>>
    THEN [op |-> stk[1].op, status |-> "raised", err |-> e]
    ELSE result

\* run without the else clause of its loop: a step that returns leaves the
\* pending exception set.
AfterAdvance_keep(stk, out) == IF out = NoErr THEN stk ELSE Unwind(stk, out)

\* Where control goes when advance ends, stk being the stack of its caller:
\* out = NoErr is a normal return (lines 95, 100), anything else the exception
\* it raised.  In run, a return clears the local `exception` (line 159).
AfterAdvance(stk, out) ==
    IF out = NoErr
    THEN IF Last(stk).op = "run"
         THEN Append(Front(stk), [Last(stk) EXCEPT !.exc = NoErr])
         ELSE stk
    ELSE Unwind(stk, out)

AppendRemaining_always(tsk, task, more) == Append(tsk, task)

\* The task is put at the bottom of the pending stack.
AppendRemaining_front(tsk, task, more) == IF more THEN <<task>> \o tsk ELSE tsk

\* `if remaining_work := ...: self.tasks.append(remaining_work)`
\* (lines 123-124, 154-155); tsk is the pending stack when advance ends.
AppendRemaining(tsk, task, more) == IF more THEN Append(tsk, task) ELSE tsk

AdvanceExcept_wrapall(p, e, n) ==
    IF e.cls = "StopIteration" THEN NoErr ELSE PluginError(n, p, e)

AdvanceExcept_rewrap(p, e, n) ==
    IF e.cls = "StopIteration" THEN NoErr
    ELSE IF e.cls = "BubbleException" THEN e
    ELSE PluginError(n, p, e)

\* The except clauses of advance (lines 94-99) for an exception e leaving the
\* try block; n is the identity of a wrapper it may create.  NoErr stands
\* for `return None`.
AdvanceExcept(p, e, n) ==
    IF e.cls = "StopIteration" THEN NoErr
    ELSE IF IsBubble(e) THEN e
    ELSE PluginError(n, p, e)

\* The task is kept for another step although its step raised.
RemainingTasks_retry(tsk, task, out, more) ==
    AppendRemaining(tsk, task, out # NoErr \/ more)

\* The list is assigned instead of appended to.
RemainingTasks_assign(tsk, task, out, more) ==
    IF out = NoErr /\ more THEN <<task>> ELSE tsk

\* require undoing its call when a plugin fails: the tasks are dropped.
RemainingTasks_rollback(tsk, task, out, more) ==
    IF out # NoErr THEN <<>> ELSE AppendRemaining(tsk, task, more)

\* The pending stack when advance ends: nothing is undone when it raised.
RemainingTasks(tsk, task, out, more) ==
    AppendRemaining(tsk, task, out = NoErr /\ more)

\* The exceptions still uncaught once plugin code that was handling
\* `handled` let `left` leave it and the engine raised `out` for it.
OpenAfter(handled, left, out) ==
    LET o1 == open \ {handled.id}
        o2 == IF left = NoErr THEN o1 ELSE o1 \cup {left.id}
    IN  IF out # NoErr /\ out # left THEN (o2 \ {left.id}) \cup {out.id} ELSE o2

\* The specs of index above k that require(*specs), called at line 146, has not
\* reached when exception e leaves the code above stk; unchanged when e does
\* not end that call.
Unreached(stk, k, e) ==
    IF /\ e # NoErr
       /\ Len(Unwind(stk, e)) = 1
       /\ stk[1].op = "run" /\ stk[1].phase = "require"
    THEN {stk[2].args[m] : m \in (k + 1)..Len(stk[2].args)}
    ELSE skipped

\* task.advance(ctx, inj) ends, called from the top frame of stk with tsk
\* the pending stack: the plugin's code was handling `handled`; `left` is the
\* exception that leaves the try block (NoErr if none), n the identity of a
\* wrapper, more = TRUE a cursor that yielded (`return self`).
EndAdvance(stk, tsk, task, inj, handled, left, n, more) ==
    LET out == IF left = NoErr THEN NoErr ELSE AdvanceExcept(task.plugin, left, n) IN
    /\ stack' = AfterAdvance(stk, out)
    /\ tasks' = RemainingTasks(tsk, task, out, more)
    /\ result' = IF out = NoErr THEN result ELSE Raised(stk, out)
    /\ errCount' = IF out.id > errCount THEN out.id
                   ELSE IF left.id > errCount THEN left.id ELSE errCount
    /\ finished' = IF out = NoErr /\ more THEN finished
                   ELSE finished \cup {task.plugin}
    /\ last' = [by |-> Last(stk).op, plugin |-> task.plugin,
                iterator |-> task.iterator, inj |-> inj, left |-> left,
                raised |-> out]
    /\ open' = OpenAfter(handled, left, out)
    /\ skipped' = Unreached(stk, stk[Len(stk)].i, out)

resolve_unwrapped(spec, n) ==
    IF spec \in Strings
    THEN LET r == import_from_string(spec)
             exc == NewErr(n, r.cls)
         IN  IF r.ok THEN [ok |-> TRUE, plugin |-> r.plugin, exc |-> NoErr, err |-> NoErr]
             ELSE [ok |-> FALSE, plugin |-> "", exc |-> exc, err |-> exc]
    ELSE [ok |-> TRUE, plugin |-> spec, exc |-> NoErr, err |-> NoErr]

\* resolve (lines 126-141); n is the identity of the first exception object
\* it may create, exc the exception of the lookup, err the one resolve raises.
resolve(spec, n) ==
    IF spec \in Strings
    THEN LET r == import_from_string(spec)
             exc == NewErr(n, r.cls)
         IN  IF r.ok THEN [ok |-> TRUE, plugin |-> r.plugin, exc |-> NoErr, err |-> NoErr]
             ELSE IF IsBubble(exc)
                  THEN [ok |-> FALSE, plugin |-> "", exc |-> exc, err |-> exc]
                  ELSE [ok |-> FALSE, plugin |-> "", exc |-> exc,
                        err |-> PluginImportError(n + 1, spec, exc)]
    ELSE [ok |-> TRUE, plugin |-> spec, exc |-> NoErr, err |-> NoErr]

\* The plugin whose body made the require call running on top of stk.
Caller(stk) ==
    IF stk # <<>> /\ Last(stk).op = "advance" THEN Last(stk).task.plugin ELSE ""

AlreadyActivated_never(plugin) == FALSE

\* `if plugin in self.plugins: continue` (lines 118-119)
AlreadyActivated(plugin) == plugin \in plugins

\* ------------------------------------------------------------------ calls
\* The caller calls pipeline.require(*args).
CallRequire(args) ==
    /\ stack = <<>>
    /\ calls < MaxCalls
    /\ calls' = calls + 1
    /\ stack' = <<Frame("require", args, NoTask, "", NoErr, NoErr)>>
    /\ result' = [op |-> "require", status |-> "running", err |-> NoErr]
    /\ errCount' = 0
    /\ last' = NoLast
    /\ open' = {}
    /\ log' = <<>>
    /\ skipped' = {}
    /\ UNCHANGED <<requester, plugins, tasks, nested, invoked, finished>>

\* The caller calls pipeline.run(specs); line 146 calls require.
CallRun(specs) ==
    /\ stack = <<>>
    /\ calls < MaxCalls
    /\ calls' = calls + 1
    /\ stack' = <<Frame("run", <<>>, NoTask, "require", NoErr, NoErr),
                  Frame("require", specs, NoTask, "", NoErr, NoErr)>>
    /\ result' = [op |-> "run", status |-> "running", err |-> NoErr]
    /\ errCount' = 0
    /\ last' = NoLast
    /\ open' = {}
    /\ log' = <<>>
    /\ skipped' = {}
    /\ UNCHANGED <<requester, plugins, tasks, nested, invoked, finished>>

\* ------------------------------------------------------------------ require
More == Running("require") /\ Top.i < Len(Top.args)
NextSpec == Top.args[Top.i + 1]
Continue == [Top EXCEPT !.i = @ + 1]

\* line 117 raises: the loop is abandoned.
RequireResolveFails ==
    /\ More
    /\ LET r == resolve(NextSpec, errCount + 1) IN
       /\ ~r.ok
       /\ stack' = Unwind(stack, r.err)
       /\ result' = Raised(stack, r.err)
       /\ errCount' = r.err.id
       /\ last' = [NoLast EXCEPT !.by = "require", !.left = r.exc, !.raised = r.err]
       /\ open' = OpenAfter(NoErr, r.exc, r.err)
       /\ skipped' = Unreached(stack, Top.i + 1, r.err)
    /\ UNCHANGED <<requester, plugins, tasks, calls, nested, invoked,
                   finished, log>>

\* lines 118-119: an activated plugin is skipped.
RequireSkip ==
    /\ More
    /\ LET r == resolve(NextSpec, errCount + 1) IN
       /\ r.ok
       /\ AlreadyActivated(r.plugin)
       /\ stack' = Append(Below, Continue)
    /\ UNCHANGED <<skipped, requester, plugins, tasks, result, errCount,
                   calls, nested, invoked, finished, last, open, log>>

\* require without line 121: the plugin is invoked but not recorded.
RequireInvoke_noadd ==
    /\ More
    /\ LET r == resolve(NextSpec, errCount + 1) IN
       /\ r.ok
       /\ ~AlreadyActivated(r.plugin)
       /\ stack' = Below \o <<Continue,
                      Frame("advance", <<>>, Task(r.plugin), "call", NoErr, NoErr)>>
       /\ invoked' = [invoked EXCEPT ![r.plugin] = @ + 1]
       /\ log' = Append(log, <<r.plugin, 0>>)
       /\ requester' = [requester EXCEPT ![r.plugin] = Caller(Below)]
    /\ UNCHANGED <<skipped, plugins, tasks, result, errCount, calls, nested,
                   finished, last, open>>

\* lines 121-123 and 83-84: the plugin is added and Task(plugin).advance
\* calls it.
RequireInvoke ==
    /\ More
    /\ LET r == resolve(NextSpec, errCount + 1) IN
       /\ r.ok
       /\ ~AlreadyActivated(r.plugin)
       /\ plugins' = plugins \cup {r.plugin}
       /\ stack' = Below \o <<Continue,
                      Frame("advance", <<>>, Task(r.plugin), "call", NoErr, NoErr)>>
       /\ invoked' = [invoked EXCEPT ![r.plugin] = @ + 1]
       /\ log' = Append(log, <<r.plugin, 0>>)
       /\ requester' = [requester EXCEPT ![r.plugin] = Caller(Below)]
    /\ UNCHANGED <<skipped, tasks, result, errCount, calls, nested, finished,
                   last, open>>

\* The loop of require is over: it returns to the caller, to the plugin body
\* that called it, or to run (lines 149-150).
RequireReturn ==
    /\ Running("require") /\ Top.i = Len(Top.args)
    /\ stack' = IF Below # <<>> /\ Last(Below).op = "run"
                THEN Append(Front(Below),
                            [Last(Below) EXCEPT !.exc = NoErr, !.phase = "drain"])
                ELSE Below
    /\ result' = IF Below = <<>>
                 THEN [op |-> "require", status |-> "ok", err |-> NoErr]
                 ELSE result
    /\ UNCHANGED <<skipped, requester, plugins, tasks, errCount, calls,
                   nested, invoked, finished, last, open, log>>

\* ------------------------------------------------------------------ plugin bodies
\* The running plugin calls require(*args) (ctx.require); an exception it was
\* handling has been caught.
BodyRequire(args) ==
    /\ Running("advance")
    /\ nested < MaxNested
    /\ nested' = nested + 1
    /\ stack' = Below \o <<[Top EXCEPT !.exc = NoErr],
                           Frame("require", args, NoTask, "", NoErr, NoErr)>>
    /\ open' = open \ {Top.exc.id}
    /\ UNCHANGED <<skipped, requester, plugins, tasks, result, errCount,
                   calls, invoked, finished, last, log>>

\* self.plugin(ctx) returns (line 84).  kind "empty": the result is not
\* Iterable, the cursor is iter([]) and next raises StopIteration at once
\* (lines 85-89, 94-95).  Otherwise the cursor is a generator or another
\* iterator and next starts running it (line 89).
BodyReturns(kind) ==
    /\ Running("advance") /\ Top.phase = "call"
    /\ LET task == [Top.task EXCEPT !.iterator = kind] IN
       IF kind = "empty"
       THEN EndAdvance(Below, tasks, task, Top.inj, Top.exc, NoErr, 0, FALSE)
       ELSE /\ stack' = Append(Below, [Top EXCEPT !.task = task,
                                                  !.phase = "next", !.exc = NoErr])
            /\ open' = open \ {Top.exc.id}
            /\ UNCHANGED <<tasks, result, errCount, finished, last, skipped>>
    /\ UNCHANGED <<requester, plugins, calls, nested, invoked, log>>

\* The cursor yields: advance returns self (line 100).
BodyYield ==
    /\ Running("advance") /\ Top.phase = "next"
    /\ Top.task.yields < MaxYield
    /\ EndAdvance(Below, tasks, [Top.task EXCEPT !.yields = @ + 1],
                  Top.inj, Top.exc, NoErr, 0, TRUE)
    /\ log' = Append(log, <<Top.task.plugin, -1>>)
    /\ UNCHANGED <<requester, plugins, calls, nested, invoked>>

\* The cursor is exhausted: StopIteration, advance returns None (94-95).
CursorExhausted ==
    /\ Running("advance") /\ Top.phase = "next"
    /\ EndAdvance(Below, tasks, Top.task, Top.inj, Top.exc, NoErr, 0, FALSE)
    /\ UNCHANGED <<requester, plugins, calls, nested, invoked, log>>

\* The exception object that leaves the plugin's code when it raises a new
\* exception of class cls: a StopIteration raised inside a generator body
\* leaves it as a RuntimeError.
Leaving(task, phase, n, cls) ==
    IF cls = "StopIteration" /\ phase = "next" /\ task.iterator = "gen"
    THEN NewErr(n, "Exception")
    ELSE NewErr(n, cls)

\* The plugin's code raises a new exception.  (A non-generator cursor that
\* raises StopIteration is CursorExhausted.)
BodyRaise(cls) ==
    /\ Running("advance")
    /\ ~(cls = "StopIteration" /\ Top.phase = "next" /\ Top.task.iterator = "iter")
    /\ EndAdvance(Below, tasks, Top.task, Top.inj, Top.exc,
                  Leaving(Top.task, Top.phase, errCount + 1, cls), errCount + 2, FALSE)
    /\ UNCHANGED <<requester, plugins, calls, nested, invoked, log>>

\* The plugin's code does not catch the exception it is handling.
BodyPropagate ==
    /\ Running("advance") /\ Top.exc # NoErr
    /\ EndAdvance(Below, tasks, Top.task, Top.inj, Top.exc, Top.exc,
                  errCount + 1, FALSE)
    /\ UNCHANGED <<requester, plugins, calls, nested, invoked, log>>

\* ------------------------------------------------------------------ run
Draining == Running("run") /\ Top.phase = "drain"

PopTask_first == [task |-> Head(tasks), rest |-> Tail(tasks)]

\* The top task is read but left on the list (tasks[-1]).
PopTask_peek == [task |-> Last(tasks), rest |-> tasks]

\* self.tasks.pop() (line 154)
PopTask == [task |-> Last(tasks), rest |-> Front(tasks)]

Resume_plain(task, exception) ==
    Append(stack, Frame("advance", <<>>, task, "next", NoErr, NoErr))

\* self.tasks.pop().advance(self.ctx, exception) reaches the cursor.
Resume(task, exception) ==
    Append(stack, Frame("advance", <<>>, task, "next", exception, exception))

\* lines 152-154, 88-89: no pending exception, the popped task is advanced.
RunResumeNext ==
    /\ Draining /\ tasks # <<>>
    /\ Top.exc = NoErr
    /\ tasks' = PopTask.rest
    /\ stack' = Resume(PopTask.task, NoErr)
    /\ log' = Append(log, <<PopTask.task.plugin, PopTask.task.yields>>)
    /\ UNCHANGED <<skipped, requester, plugins, result, errCount, calls,
                   nested, invoked, finished, last, open>>

\* lines 152-154, 90-91: the pending exception is thrown into the generator.
RunResumeThrow ==
    /\ Draining /\ tasks # <<>>
    /\ Top.exc # NoErr
    /\ PopTask.task.iterator = "gen"
    /\ tasks' = PopTask.rest
    /\ stack' = Resume(PopTask.task, Top.exc)
    /\ log' = Append(log, <<PopTask.task.plugin, PopTask.task.yields>>)
    /\ UNCHANGED <<skipped, requester, plugins, result, errCount, calls,
                   nested, invoked, finished, last, open>>

\* advance without its final else branch: a cursor that is no generator is
\* advanced by next although an exception is pending.
RunResumeRaise_next ==
    /\ Draining /\ tasks # <<>>
    /\ Top.exc # NoErr
    /\ PopTask.task.iterator # "gen"
    /\ tasks' = PopTask.rest
    /\ stack' = Resume(PopTask.task, NoErr)
    /\ log' = Append(log, <<PopTask.task.plugin, PopTask.task.yields>>)
    /\ UNCHANGED <<skipped, requester, plugins, result, errCount, calls,
                   nested, invoked, finished, last, open>>

\* lines 152-154, 92-93: the cursor is no generator, advance raises the
\* pending exception itself.
RunResumeRaise ==
    /\ Draining /\ tasks # <<>>
    /\ Top.exc # NoErr
    /\ PopTask.task.iterator # "gen"
    /\ EndAdvance(stack, PopTask.rest, PopTask.task, Top.exc, Top.exc, Top.exc,
                  errCount + 1, FALSE)
    /\ UNCHANGED <<requester, plugins, calls, nested, invoked, log>>

\* lines 161-162: the stack is empty, run raises the pending exception or
\* returns.
RunFinish ==
    /\ Draining /\ tasks = <<>>
    /\ stack' = Below
    /\ result' = [op |-> "run",
                  status |-> IF Top.exc = NoErr THEN "ok" ELSE "raised",
                  err |-> Top.exc]
    /\ skipped' = {}
    /\ UNCHANGED <<requester, plugins, tasks, errCount, calls, nested,
                   invoked, finished, last, open, log>>

\* ------------------------------------------------------------------ specification
Next ==
    \/ \E args \in ArgLists : CallRequire(args)
    \/ \E specs \in ArgLists : CallRun(specs)
    \/ RequireResolveFails
    \/ RequireSkip
    \/ RequireInvoke
    \/ RequireReturn
    \/ \E args \in NestedArgLists : BodyRequire(args)
    \/ \E kind \in {"empty", "gen", "iter"} : BodyReturns(kind)
    \/ BodyYield
    \/ CursorExhausted
    \/ \E cls \in RaisableClasses : BodyRaise(cls)
    \/ BodyPropagate
    \/ RunResumeNext
    \/ RunResumeThrow
    \/ RunResumeRaise
    \/ RunFinish

Spec == Init /\ [][Next]_vars

\* The steps of the engine and of the plugin bodies, a body's require call
\* apart.
Engine ==
    \/ RequireResolveFails
    \/ RequireSkip
    \/ RequireInvoke
    \/ RequireReturn
    \/ \E kind \in {"empty", "gen", "iter"} : BodyReturns(kind)
    \/ BodyYield
    \/ CursorExhausted
    \/ \E cls \in RaisableClasses : BodyRaise(cls)
    \/ BodyPropagate
    \/ RunResumeNext
    \/ RunResumeThrow
    \/ RunResumeRaise
    \/ RunFinish

\* Termination is checked for calls on two of the plugins and the textual
\* specs.
FairSpecs == {"A", "B"} \cup Strings
FairArgLists == UNION {[1..n -> FairSpecs] : n \in 0..MaxArgs}

\* What happens once a call has been made.
Progress == Engine \/ \E args \in [1..1 -> FairSpecs] : BodyRequire(args)

FairNext ==
    \/ \E args \in FairArgLists : CallRequire(args)
    \/ \E specs \in FairArgLists : CallRun(specs)
    \/ Progress

\* Single-threaded code keeps running: a call that was made goes on until it
\* returns or raises, and every step of a plugin body ends (by a return, a
\* yield or an exception).  The caller need not make another call.
FairSpec == Init /\ [][FairNext]_vars /\ WF_vars(Progress)

\* ------------------------------------------------------------------ properties
Reverse(s) == [k \in 1..Len(s) |-> s[Len(s) + 1 - k]]
PluginsOf(s) == [k \in 1..Len(s) |-> s[k].plugin]
Names(entries) == [k \in 1..Len(entries) |-> entries[k][1]]
OnStack(p) == \E k \in 1..Len(tasks) : tasks[k].plugin = p

RECURSIVE Dedup(_)
Dedup(s) ==
    IF s = <<>> THEN <<>>
    ELSE LET d == Dedup(Front(s)) IN
         IF \E k \in 1..Len(d) : d[k] = Last(s) THEN d ELSE Append(d, Last(s))

Distinct(args) == Dedup([k \in 1..Len(args) |-> resolve(args[k], 0).plugin])

\* The log of a first pass over plugins ps that neither raise nor require:
\* each starts at its position, and suspends if its task is on the stack.
RECURSIVE FirstPass(_)
FirstPass(ps) ==
    IF ps = <<>> THEN <<>>
    ELSE FirstPass(Front(ps)) \o <<<<Last(ps), 0>>>>
         \o (IF OnStack(Last(ps)) THEN <<<<Last(ps), -1>>>> ELSE <<>>)

IsFirstPass(e) == e[2] <= 0
IsSuspension(e) == e[2] = -1
IsResumption(e) == e[2] >= 1

\* A first call on a fresh engine in which nothing raised and no plugin
\* required another.
Quiet == calls = 1 /\ nested = 0 /\ errCount = 0

\* C2: run([P1..Pn]) on a fresh engine, nothing raising and no plugin
\* requiring another, runs the pre-suspension phases in argument order (a
\* plugin that does not suspend runs completely at its position), then the
\* post-suspension phases of the suspended plugins in reverse order.
C2_RunOrder ==
    /\ (/\ Quiet
        /\ Len(stack) = 2 /\ stack[1].op = "run"
        /\ Top.op = "require" /\ Top.i = Len(Top.args))
       => /\ log = FirstPass(Distinct(Top.args))
          /\ PluginsOf(tasks) = Names(SelectSeq(log, IsSuspension))
    /\ (/\ Quiet
        /\ Draining /\ tasks = <<>>
        /\ \A k \in 1..Len(log) : log[k][2] <= 1)
       => /\ log = SelectSeq(log, IsFirstPass) \o SelectSeq(log, IsResumption)
          /\ Names(SelectSeq(log, IsResumption))
               = Reverse(Names(SelectSeq(log, IsSuspension)))

\* run([A, B]) is about to return: A-start, B-start, B-end, A-end.
C2_Witness ==
    /\ Quiet /\ Draining /\ tasks = <<>>
    /\ log = << <<"A", 0>>, <<"A", -1>>, <<"B", 0>>, <<"B", -1>>,
                <<"B", 1>>, <<"A", 1>> >>


\* The step run's loop just made on a task raised, and a task is suspended.
ResumedStepRaised ==
    /\ Draining /\ tasks # <<>>
    /\ last.by = "run" /\ last.raised # NoErr

\* The next state resumes the top task with the raised error thrown in.
ThrownIntoTop ==
    /\ Len(stack') = Len(stack) + 1
    /\ stack'[Len(stack')].op = "advance"
    /\ stack'[Len(stack')].task = Last(tasks)
    /\ stack'[Len(stack')].inj = last.raised
    /\ stack'[Len(stack')].exc = last.raised
    /\ tasks' = Front(tasks)
    /\ result'.status = "running"

\* C3 as claimed: whenever a resumed step raised and a task is still
\* suspended, the next popped task is resumed with that error injected at
\* its suspension point.
C3_AlwaysInjected == [][ResumedStepRaised => ThrownIntoTop]_vars

\* C3 as amended: when a resumed step raised and the next popped task's
\* cursor is a generator, that task is resumed with the error injected, before
\* run raises anything; a step of run that does not raise clears the pending
\* error, and run returns normally when the last step did not raise.
C3_InjectedIntoGenerator ==
    [][/\ (ResumedStepRaised /\ Last(tasks).iterator = "gen") => ThrownIntoTop
       /\ (/\ Len(stack) = 2 /\ stack[1].op = "run" /\ Top.op = "advance"
           /\ Top.inj # NoErr
           /\ Len(stack') = 1 /\ last'.raised = NoErr)
          => stack'[1].exc = NoErr
       /\ (Draining /\ tasks = <<>> /\ last.raised = NoErr)
          => (stack' = <<>> /\ result'.status = "ok")
      ]_vars

\* run returned normally although B's resumed step raised: the error was
\* thrown into A, which absorbed it.
C3_Witness ==
    /\ result.op = "run" /\ result.status = "ok"
    /\ \E k \in 1..Len(log) : log[k] = <<"B", 1>>
    /\ last.by = "run" /\ last.plugin = "A"
    /\ last.inj.cls = "PluginError" /\ last.inj.of = "B"
    /\ last.raised = NoErr

\* C4: an escape-hatch error that leaves a plugin's code or the lookup is
\* raised by that layer as the same object, never inside a wrapper; run hands
\* its pending error, whatever its class, to the next advance call, and raises
\* to its caller the very error the last step raised.
C4_BubbleUnwrapped ==
    /\ last.left.cls = "BubbleException" => last.raised = last.left
    /\ (Len(stack) >= 2 /\ stack[1].op = "run" /\ stack[1].phase = "drain")
       => (stack[2].op = "advance" /\ stack[2].inj = stack[1].exc)
    /\ (result.op = "run" /\ result.status = "raised")
       => result.err = last.raised

\* run raised an escape-hatch error that was thrown into the last suspended
\* task and left it again.
C4_Witness ==
    /\ result.op = "run" /\ result.status = "raised"
    /\ result.err.cls = "BubbleException" /\ result.err.depth = 0
    /\ last.by = "run" /\ last.iterator = "gen"
    /\ last.inj = result.err /\ last.left = result.err

\* Every exception object the state holds.
Errors ==
    {result.err, last.inj, last.left, last.raised}
    \cup {stack[k].exc : k \in 1..Len(stack)}
    \cup {stack[k].inj : k \in 1..Len(stack)}

\* C5: every error raised to a caller or injected into a task carries at
\* most one PluginError / PluginImportError wrapper, also after passing
\* through tasks that do not catch it or do not support injection.
C5_WrappedOnce == \A e \in Errors : e.depth <= 1

\* A PluginError passed through a generator task that did not catch it and is
\* then raised by the step of a task whose cursor supports no injection.
C5_Witness ==
    /\ last.by = "run" /\ last.iterator = "iter"
    /\ last.inj.cls = "PluginError" /\ last.inj.of # last.plugin
    /\ last.raised = last.inj
    /\ \E k \in 1..Len(log) : log[k][2] >= 1

\* C6: whenever run returns normally, every error raised during that run was
\* caught by plugin code (thrown into a suspended task whose step did not
\* raise it again); the engine itself never turns a raise into "finished".
C6_NeverSwallows ==
    /\ (result.op = "run" /\ result.status = "ok") => open = {}
    /\ (result.op = "run" /\ last.left # NoErr) => last.raised # NoErr

\* C7: a plugin whose call returns a non-sequence value is finished after
\* its one step: nothing is pushed for it, its body ran once, and no task
\* that finished is on the pending stack or being stepped again.
C7_NonSequenceFinished ==
    /\ (last.plugin # "" /\ last.iterator = "empty")
       => /\ last.raised = NoErr
          /\ last.plugin \in finished
          /\ invoked[last.plugin] = 1
    /\ \A k \in 1..Len(tasks) :
          tasks[k].iterator \in {"gen", "iter"} /\ tasks[k].plugin \notin finished
    /\ \A k \in 1..Len(stack) :
          stack[k].op = "advance" => stack[k].task.plugin \notin finished

\* In a second call, while A is suspended, B returned a non-sequence value.
C7_Witness ==
    /\ calls = 2
    /\ last.plugin = "B" /\ last.iterator = "empty"
    /\ PluginsOf(tasks) = <<"A">>

\* The require loop is at a textual spec the lookup cannot resolve.
AtBadSpec ==
    /\ More
    /\ NextSpec \in Strings
    /\ ~import_from_string(NextSpec).ok
    /\ import_from_string(NextSpec).cls = "Exception"

IsSuffix(s, t) ==
    /\ Len(s) <= Len(t)
    /\ \A k \in 1..Len(s) : s[k] = t[Len(t) - Len(s) + k]

\* C9: when a top-level require raises, nothing is rolled back: the plugins
\* of the specs it had processed are activated, the tasks that suspended
\* during the call are on top of the pending stack in push order, and the
\* caller gets the error.
C9_NoRollback ==
    [][(/\ stack # <<>> /\ stack[1].op = "require"
        /\ stack' = <<>> /\ result'.status = "raised")
       => /\ \A k \in 1..stack[1].i :
               resolve(stack[1].args[k], 0).ok
               => resolve(stack[1].args[k], 0).plugin \in plugins'
          /\ plugins \subseteq plugins'
          /\ tasks' = tasks
          /\ IsSuffix(Names(SelectSeq(log', IsSuspension)), PluginsOf(tasks'))
          /\ result'.err = last'.raised
      ]_vars

\* require(A, B) raised at B (PluginError of B) after A had suspended.
C9_Witness ==
    /\ result.op = "require" /\ result.status = "raised"
    /\ result.err.cls = "PluginError" /\ result.err.of = "B"
    /\ "A" \in plugins
    /\ PluginsOf(tasks) = <<"A">>
    /\ log = << <<"A", 0>>, <<"A", -1>>, <<"B", 0>> >>

\* The step ends the initial require of run by an exception.
InitialActivationRaises ==
    /\ Len(stack) \in {2, 3}
    /\ stack[1].op = "run" /\ stack[1].phase = "require"
    /\ stack[2].op = "require"
    /\ Len(stack') < Len(stack)
    /\ last'.raised # NoErr

\* run is about to make its first drain step with the error of the initial
\* require pending.
FirstDrainStep == Draining /\ last.by = "require" /\ last.raised # NoErr

TeardownEnds(p) ==
    /\ Running("advance") /\ Top.task.plugin = p /\ Top.task.yields >= 1
    /\ Len(stack') < Len(stack)
    /\ last'.plugin = p /\ last'.raised = NoErr
    /\ p \in finished'

\* C11: a plugin P whose body required Q (before or after P's suspension
\* point) finishes its post-suspension teardown only after Q has run to
\* completion: when P's last step ends, every plugin P's body invoked is
\* finished.
C11_TeardownAfterTriggered ==
    [][\A p \in Plugins :
         TeardownEnds(p)
         => \A q \in Plugins : requester[q] = p => q \in finished'
      ]_vars

\* The position in the log of plugin p's latest suspension during the current
\* top-level call, 0 when it has not suspended in this call (a task on the
\* pending stack then suspended during an earlier call).
LastSuspension(p) ==
    LET S == {k \in 1..Len(log) : log[k] = <<p, -1>>} IN
    IF S = {} THEN 0 ELSE CHOOSE k \in S : \A m \in S : m <= k

\* p's latest suspension is earlier than q's.  Within the first call on an
\* engine every suspension is in the log; later, two tasks left by earlier
\* calls are told apart only by their position, which the third conjunct of
\* C12 keeps fixed.
SuspendedBefore(p, q) ==
    \/ LastSuspension(p) < LastSuspension(q)
    \/ calls > 1 /\ LastSuspension(p) = 0 /\ LastSuspension(q) = 0

\* The loop of run is about to pop a task (line 154).
DrainStep == Draining /\ tasks # <<>>

\* The plugin of the task the step hands to advance.
Stepped ==
    IF Len(stack') > Len(stack) THEN stack'[Len(stack')].task.plugin
    ELSE last'.plugin

\* C12: resumption is strictly LIFO relative to suspension order: the pending
\* stack is ordered by latest suspension, each drain step of run takes the
\* task whose latest suspension is the most recent of all pending tasks (also
\* after several suspensions of one task and after a resumed task activated
\* plugins that suspended), and the stack only ever changes at its top.
C12_StrictLIFO ==
    [][/\ \A i, j \in 1..Len(tasks) :
             i < j => SuspendedBefore(tasks[i].plugin, tasks[j].plugin)
       /\ DrainStep
          => /\ OnStack(Stepped)
             /\ ~(\E k \in 1..Len(tasks') : tasks'[k].plugin = Stepped)
             /\ \A k \in 1..Len(tasks) :
                   tasks[k].plugin # Stepped
                   => SuspendedBefore(tasks[k].plugin, Stepped)
       /\ \/ tasks' = tasks
          \/ tasks # <<>> /\ tasks' = Front(tasks)
          \/ tasks' # <<>> /\ Front(tasks') = tasks
      ]_vars

\* run([A]): A suspended, was resumed, required B, which suspended, and
\* suspended again; A is being resumed a second time while B waits.
C12_Witness ==
    /\ calls = 1 /\ Len(stack) = 2 /\ stack[1].op = "run"
    /\ Top.op = "advance" /\ Top.task.plugin = "A"
    /\ PluginsOf(tasks) = <<"B">>
    /\ log = << <<"A", 0>>, <<"A", -1>>, <<"A", 1>>, <<"B", 0>>, <<"B", -1>>,
                <<"A", -1>>, <<"A", 2>> >>

\* A Suspended task: started, its latest step returned the task itself
\* (line 100), and no step of it reported exhaustion or raised.
Suspended(task) ==
    /\ task.iterator \in {"gen", "iter"}
    /\ task.yields >= 1
    /\ task.plugin \notin finished

\* The step ends an advance call by `return None` or by an exception.
StepFinishes ==
    /\ last' # last \/ finished' # finished
    /\ last'.plugin # ""
    /\ last'.plugin \in finished'
    /\ (Running("advance") => Len(stack') < Len(stack))

\* C13: the pending stack holds only Suspended tasks; a task whose step
\* reported exhaustion or raised is never pushed back and is never stepped
\* again.
C13_OnlySuspended ==
    [][/\ \A k \in 1..Len(tasks) : Suspended(tasks[k])
       /\ StepFinishes => ~(\E k \in 1..Len(tasks') : tasks'[k].plugin = last'.plugin)
       /\ \A p \in finished :
             /\ p \in finished'
             /\ ~(\E k \in 1..Len(stack') :
                    stack'[k].op = "advance" /\ stack'[k].task.plugin = p)
             /\ ~(\E k \in 1..Len(tasks') : tasks'[k].plugin = p)
      ]_vars

\* During run, C's resumed step reported exhaustion and B's raised while A is
\* still pending.
C13_Witness ==
    /\ Draining
    /\ last.by = "run" /\ last.plugin = "B" /\ last.raised # NoErr
    /\ finished = {"B", "C"}
    /\ PluginsOf(tasks) = <<"A">>
    /\ \E k \in 1..Len(log) : log[k] = <<"C", 1>>

\* C14: with finitely many plugins, each suspending finitely often, every
\* call to run terminates, and when it has returned or raised the pending
\* stack is empty, tasks left by earlier require calls included.
C14_RunTerminates ==
    /\ []<>(stack = <<>>)
    /\ []((stack = <<>> /\ result.op = "run")
            => (tasks = <<>> /\ result.status \in {"ok", "raised"}))

\* A second call, run, has raised after draining the tasks that an earlier
\* require call left on the stack.
C14_Witness ==
    /\ calls = 2 /\ stack = <<>> /\ tasks = <<>>
    /\ result.op = "run" /\ result.status = "raised"
    /\ log = << <<"B", 1>>, <<"B", -1>>, <<"B", 2>>, <<"A", 1>> >>

\* C15: run has one pending error, the local `exception`, and between two
\* steps it is the error the most recent step raised (the initial require
\* call or the latest drain step; none if that step did not raise); a drain
\* step is handed exactly it; run raises iff its last step raised, and raises
\* that step's error.
C15_PendingIsLatest ==
    /\ Draining => Top.exc = last.raised
    /\ (Len(stack) >= 2 /\ stack[1].op = "run" /\ stack[1].phase = "drain")
       => stack[2].inj = stack[1].exc
    /\ (stack = <<>> /\ result.op = "run")
       => /\ result.status = "raised" <=> last.raised # NoErr
          /\ result.err = last.raised

\* run raised the PluginError of the last drained task, which had been
\* handed the error of the initial require and raised another one.
C15_Witness ==
    /\ stack = <<>> /\ result.op = "run" /\ result.status = "raised"
    /\ last.by = "run"
    /\ last.inj.cls = "PluginImportError"
    /\ result.err.cls = "PluginError" /\ result.err.of = last.plugin
    /\ result.err.cause # last.inj.id

\* run is about to hand its pending error to a suspended task whose cursor
\* is no generator.
NonInjectableDelivery ==
    /\ DrainStep
    /\ Top.exc # NoErr
    /\ Last(tasks).iterator # "gen"

\* C16: a pending error delivered to a suspended task whose cursor is an
\* iterator but no generator: the cursor is not advanced (no plugin code
\* runs), the step raises the pending error itself, no new wrapper is
\* created, and the error stays pending for the next popped task.
C16_NonInjectable ==
    [][NonInjectableDelivery
       => /\ Len(stack') = 1 /\ log' = log /\ invoked' = invoked
          /\ tasks' = Front(tasks)
          /\ last'.by = "run" /\ last'.plugin = Last(tasks).plugin
          /\ last'.inj = Top.exc
          /\ last'.raised = Top.exc
          /\ errCount' = errCount
          /\ stack'[1].op = "run" /\ stack'[1].phase = "drain"
          /\ stack'[1].exc = Top.exc
      ]_vars

\* An escape-hatch error went through the step of a non-generator task and
\* is still pending while another task waits on the stack.
C16_Witness ==
    /\ DrainStep
    /\ last.by = "run" /\ last.iterator = "iter"
    /\ last.inj.cls = "BubbleException"
    /\ last.raised = last.inj
    /\ Top.exc = last.inj

\* The require loop is at a spec that resolves to an activated plugin.
AtActivated == More /\ resolve(NextSpec, 0).ok /\ resolve(NextSpec, 0).plugin \in plugins

\* C17: a plugin is in the activated set while and after its body is invoked,
\* also when its first step raises, and nothing ever leaves the set; a require
\* or run that reaches such a plugin again skips it: no body is invoked, no
\* error is raised, the loop goes on to the next spec.
C17_RaisedStaysActivated ==
    [][/\ \A k \in 1..Len(stack) :
             stack[k].op = "advance" => stack[k].task.plugin \in plugins
       /\ \A p \in Plugins : (invoked[p] >= 1 \/ p \in finished) => p \in plugins
       /\ plugins \subseteq plugins'
       /\ AtActivated
          => /\ stack' = Append(Below, Continue)
             /\ invoked' = invoked /\ log' = log
             /\ errCount' = errCount /\ last' = last /\ result' = result
             /\ plugins' = plugins /\ tasks' = tasks
      ]_vars

\* run([A]) invoked A, whose first step raised; B, suspended since an earlier
\* call, was handed the error and has required A again: the request was skipped.
C17_Witness ==
    /\ calls = 2 /\ Len(stack) = 3
    /\ stack[1].op = "run" /\ stack[2].op = "advance" /\ stack[2].task.plugin = "B"
    /\ Top.op = "require" /\ Top.args = <<"A">> /\ Top.i = 1
    /\ last.by = "require" /\ last.plugin = "A" /\ last.raised.cls = "PluginError"
    /\ invoked["A"] = 1 /\ "A" \in plugins
    /\ log = << <<"A", 0>>, <<"B", 1>> >>

\* A run call is in progress.
InRun == stack # <<>> /\ stack[1].op = "run"

\* The step resolves spec s (line 117), or adds or invokes the plugin s
\* resolves to (lines 121, 84).
Processes(s) ==
    \/ More /\ NextSpec = s
    \/ /\ resolve(s, 0).ok
       /\ \/ invoked'[resolve(s, 0).plugin] # invoked[resolve(s, 0).plugin]
          \/ resolve(s, 0).plugin \in plugins' \ plugins

\* The require call on top of the stack was made by a plugin body.
CalledByBody == Len(stack) >= 3 /\ stack[Len(stack) - 1].op = "advance"

\* C18 as claimed: when the initial require of run(s1..sn) raised at sk, the
\* specs after sk are never resolved, added to the activated set or invoked
\* during that run.
C18_LaterSpecsNeverProcessed ==
    [][InRun => \A s \in skipped : ~Processes(s)]_vars

\* C18 as amended: when the initial require of run raised at sk, its loop is
\* abandoned and run itself makes no further require call, so the specs after
\* sk are not resolved, added or invoked by run; during that run one of them
\* is processed only by a require call that a plugin body makes.
C18_LaterSpecsOnlyByBody ==
    [][/\ InitialActivationRaises => (Len(stack') = 1 /\ stack'[1].op = "run")
       /\ (InRun /\ stack[1].phase = "drain")
          => \A k \in 1..Len(stack) :
                stack[k].op = "require" => (k >= 3 /\ stack[k - 1].op = "advance")
       /\ InRun => \A s \in skipped : Processes(s) => CalledByBody
       /\ (InRun /\ stack[1].phase = "drain" /\ ~CalledByBody)
          => (plugins' = plugins /\ invoked' = invoked)
      ]_vars

\* run(["bad.module:fn", C]) is about to return normally: A, suspended since
\* an earlier call, absorbed the resolution error; C was not touched.
C18_Witness ==
    /\ Draining /\ tasks = <<>> /\ Top.exc = NoErr
    /\ skipped = {"C"}
    /\ invoked["C"] = 0 /\ "C" \notin plugins
    /\ last.by = "run" /\ last.plugin = "A"
    /\ last.inj.cls = "PluginImportError" /\ last.raised = NoErr

\* The plugins of the tasks being stepped: the advance calls on the call
\* stack, innermost last.
Stepping ==
    LET IsAdvance(f) == f.op = "advance" IN
    [k \in 1..Len(SelectSeq(stack, IsAdvance)) |->
        SelectSeq(stack, IsAdvance)[k].task.plugin]

NoRepeat(s) == \A i, j \in 1..Len(s) : i # j => s[i] # s[j]

\* C19: every task on the pending stack belongs to an activated plugin, no
\* two pending tasks belong to the same plugin, and a task being stepped is
\* not on the stack: the pending tasks and the tasks being stepped are
\* pairwise of different plugins, each invoked exactly once.
C19_OneTaskPerPlugin ==
    /\ \A k \in 1..Len(tasks) : tasks[k].plugin \in plugins
    /\ NoRepeat(PluginsOf(tasks) \o Stepping)
    /\ \A k \in 1..Len(PluginsOf(tasks) \o Stepping) :
          invoked[(PluginsOf(tasks) \o Stepping)[k]] = 1

\* C is being resumed by run while A and B, suspended in an earlier call,
\* are pending.
C19_Witness ==
    /\ PluginsOf(tasks) = <<"A", "B">>
    /\ Len(stack) = 2 /\ stack[1].op = "run"
    /\ Top.op = "advance" /\ Top.task.plugin = "C" /\ Top.task.yields = 1
    /\ plugins = {"A", "B", "C"}

IsPrefix(s, t) == Len(s) <= Len(t) /\ SubSeq(t, 1, Len(s)) = s

\* The position of plugin p among the arguments of a require call.
ArgIndex(args, p) ==
    LET S == {k \in 1..Len(args) : resolve(args[k], 0).plugin = p} IN
    IF S = {} THEN 0 ELSE CHOOSE k \in S : \A m \in S : k <= m

\* p was activated by the top-level require call in progress, not by a
\* plugin body.
ActivatedByCall(p) ==
    /\ requester[p] = ""
    /\ \E k \in 1..Len(log) : log[k] = <<p, 0>>

====
